---- MODULE Spec2Model ----
(***************************************************************************)
(* hola-audio: the capture engine (audio/capture.py), the controllers that *)
(* drive it (app.py, widget_app.py) and the hotkey manager                 *)
(* (hotkey/manager.py), as interleaved threads.                            *)
(*                                                                         *)
(* One step of a thread is one access to state shared with other threads.  *)
(* A `with self._lock` block is one step: every statement inside it is     *)
(* ordered against the other lock holders, and the lock-free realtime      *)
(* callback is split at its own accesses (flag test, then append).         *)
(* Time is time.monotonic() in whole ticks.                                *)
(***************************************************************************)
EXTENDS Integers, Sequences, FiniteSets, TLC

\* ---------------------------------------------------------------- bounds
MaxThreads == 3          \* threads ever spawned in one run (workers, auto-stops)
MaxFrames == 2           \* blocks the frame buffer may hold before delivery is cut
MaxTime == 4             \* last tick of the clock in a single session
MaxRaceTime == 3         \* last tick of the clock under the controllers
MaxFires == 2            \* firings of one binding in one run
MaxDevices == 3          \* audio devices of the host
MaxIds == 3              \* sample ids a dataset hands out in one run
MaxSessions == 2         \* sessions started one after another in one run

Threads == 1..MaxThreads
\* a stream opened by thread t is stream t; 0 is None
Streams == Threads
None == 0

\* Blocks the device may deliver: samples of one block (indata).
Blocks == {<<0, 0>>, <<1, 1>>, <<0, 2>>}

\* Constructor arguments the runs draw from (capture.py __init__).
SilenceDurations == {0, 1}
MaxDurations == {0, 2}
SilenceThresholds == {1}
\* What the monotonic clock may read when the program starts.
InitialClock == {1}

\* What the runs under the controllers draw from.
RaceBlocks == {<<0, 2>>}
RaceSilenceDurations == {0}
RaceMaxDurations == {1}

VARIABLES
    \* AudioCapture fields
    recording,          \* self._recording
    frames,             \* self._frames: sequence of [src, data]
    stream,             \* self._stream: a stream id or None
    start_time,         \* self._start_time
    last_sound_time,    \* self._last_sound_time
    max_duration, silence_threshold, silence_duration,
    \* sounddevice side
    streamState,        \* per stream: "none", "created", "active", "stopped", "closed"
    cbpc,               \* per stream: position of its realtime callback
    cbBlock,            \* per stream: the block the callback in flight holds
    now,                \* time.monotonic()
    \* threads
    op,                 \* what each thread was started for ("none": not started)
    pc,                 \* position of each thread
    ret,                \* value stop() returned to the thread (artifact id or None)
    exc,                \* exception that ended the thread ("" if none)
    won,                \* session whose flag the thread's stop() flipped (0: none)
    origin,             \* session the thread belongs to: the one its start()
                        \* began, or the one of the stream whose callback
                        \* started the thread (0: none)
    on_recording_stop,  \* self.on_recording_stop: which handler is wired
    \* history
    session,            \* number of start() calls that set the flag
    artifacts,          \* files written by _save_wav: sequence of [session, frames]
    handed,             \* per artifact id: transcription tasks started for it
    lastLoud,           \* when the last block with RMS above the threshold was
                        \* delivered, or start() took the lock if none was since
    \* WidgetApp and its Tk main loop
    widgetRecording,    \* WidgetApp._recording
    configured,         \* self.engine.is_configured
    afterQueue,         \* callbacks queued by root.after(0, ...): [fn, arg]
    \* transcriber threads of either controller
    tasks,              \* sequence of [artifact, by, state]
    trayRecording,      \* SystemTray._recording: what the tray icon shows
    \* HotkeyManager
    bindings,           \* self._bindings: name -> [keys, action]
    pressed,            \* self._pressed: normalized keys
    running,            \* self._running
    platform,           \* platform.system()
    held,               \* keys physically down on the keyboard
    fired,              \* per binding name: threads started for its action
    registry,           \* name -> [str, action] of the last register(name, ...)
                        \* not followed by unregister(name)
    handling,           \* the key whose press event the listener thread is
                        \* handling ("": none)
    scan,               \* the loop of _on_press over self._bindings.items():
                        \* [at, used, seen]
    \* AudioCapture.list_devices
    host,               \* what sd.query_devices() gives on this machine
    listed,             \* what the last list_devices() call returned or raised
    \* FinetuneDataset
    ds_samples,         \* FinetuneDataset._samples
    disk,               \* sentences.json: [exists, data], data as written last
    nextId              \* ids handed out so far (uuid4 never repeats)

engineVars == <<recording, frames, stream, start_time, last_sound_time, on_recording_stop>>
configVars == <<max_duration, silence_threshold, silence_duration>>
deviceVars == <<streamState, cbpc, cbBlock>>
threadVars == <<op, pc, ret, exc, won, origin>>
historyVars == <<session, artifacts, handed, lastLoud>>
uiVars == <<widgetRecording, configured, afterQueue, tasks, trayRecording>>
hotkeyVars == <<bindings, pressed, running, platform, held, fired, registry, handling,
                scan>>
toolVars == <<host, listed, ds_samples, disk, nextId>>
\* what the engine's own methods never write
outerVars == <<configVars, uiVars, hotkeyVars, toolVars>>
vars == <<engineVars, configVars, deviceVars, now, threadVars, historyVars, uiVars,
          hotkeyVars, toolVars>>

\* ------------------------------------------------------------- helpers
RECURSIVE SumSq(_)
SumSq(samples) ==
    IF samples = <<>> THEN 0
    ELSE Head(samples) * Head(samples) + SumSq(Tail(samples))

\* The comparison taken as "at or above" the threshold.
RmsAtOrAbove(samples, threshold) ==
    SumSq(samples) >= threshold * threshold * Len(samples)

\* rms = sqrt(mean(indata**2)); rms > threshold, compared on the squares.
RmsAbove(samples, threshold) ==
    SumSq(samples) > threshold * threshold * Len(samples)

FreeThreads == {t \in Threads : op[t] = "none"}
\* threads are handed out in order
NextThread == CHOOSE t \in FreeThreads : \A u \in FreeThreads : t <= u

Spawn(t, what, at) ==
    /\ op' = [op EXCEPT ![t] = what]
    /\ pc' = [pc EXCEPT ![t] = at]

Goto(t, at) == pc' = [pc EXCEPT ![t] = at]

Raise(t, kind) ==
    /\ pc' = [pc EXCEPT ![t] = "raised"]
    /\ exc' = [exc EXCEPT ![t] = kind]

\* threading.Thread(target=..., args=(audio_path,)).start()
\* (app.py 179-184, widget_app.py 144-145)
NewTask(path, target) == [artifact |-> path, by |-> target, state |-> "running"]

\* where stop() returns to, by what the thread runs
AfterStop(t) == "done"

\* the thread runs nothing (not started, returned, or ended by an exception)
Quiet(t) == pc[t] \in {"idle", "done", "raised"}

AfterStart(t) == "done"

\* every call made so far has returned or raised
AllReturned == \A t \in Threads : Quiet(t)

\* max_duration and silence_duration that switch the auto-stops off
NoAutoStop == {0}

\* where cancel() returns to: Application._cancel_recording goes on to notify
\* (app.py 194-196), Application.stop goes on to hotkeys.stop() (app.py 128)
AfterCancel(t) ==
    IF op[t] = "cancel" THEN "cc_notify"
    ELSE IF op[t] = "app_stop" THEN "as_hotkeys"
    ELSE "done"

\* -------------------------------------------------- AudioCapture.start
\* start() that sets the flag without testing it first.
StartLockNoTest(t) ==
    /\ pc[t] = "st_lock"
    /\ frames' = <<>>
    /\ recording' = TRUE
    /\ start_time' = now
    /\ last_sound_time' = now
    /\ session' = session + 1
    /\ origin' = [origin EXCEPT ![t] = session + 1]
    /\ lastLoud' = now
    /\ Goto(t, "st_open")
    /\ UNCHANGED <<stream, on_recording_stop, outerVars, deviceVars, now,
                   op, ret, exc, won, artifacts, handed>>

\* capture.py 72-79: the locked section of start().
StartLock(t) ==
    /\ pc[t] = "st_lock"
    /\ IF recording
       THEN /\ Goto(t, AfterStart(t))
            /\ UNCHANGED <<recording, frames, start_time, last_sound_time, session,
                           origin, lastLoud>>
       ELSE /\ frames' = <<>>
            /\ recording' = TRUE
            /\ start_time' = now
            /\ last_sound_time' = now
            /\ session' = session + 1
            /\ origin' = [origin EXCEPT ![t] = session + 1]
            /\ lastLoud' = now
            /\ Goto(t, "st_open")
    /\ UNCHANGED <<stream, on_recording_stop, outerVars, deviceVars, now,
                   op, ret, exc, won, artifacts, handed>>

\* capture.py 81-86: self._stream = sd.InputStream(...); the constructor
\* raises when the device cannot be opened.
StartOpen(t) ==
    /\ pc[t] = "st_open"
    /\ \/ /\ Raise(t, "DeviceError")
          /\ UNCHANGED <<stream, streamState>>
       \/ /\ streamState' = [streamState EXCEPT ![t] = "created"]
          /\ stream' = t
          /\ Goto(t, "st_start")
          /\ UNCHANGED exc
    /\ UNCHANGED <<recording, frames, start_time, last_sound_time, on_recording_stop,
                   outerVars, cbpc, cbBlock, now, op, ret, won, origin, historyVars>>

\* capture.py 87: self._stream.start(), on whatever self._stream holds now.
StartStream(t) ==
    /\ pc[t] = "st_start"
    /\ IF stream = None
       THEN /\ Raise(t, "AttributeError")
            /\ UNCHANGED streamState
       ELSE IF streamState[stream] \in {"closed", "active"}
       THEN /\ Raise(t, "DeviceError")
            /\ UNCHANGED streamState
       ELSE \/ /\ Raise(t, "DeviceError")
               /\ UNCHANGED streamState
            \/ /\ streamState' = [streamState EXCEPT ![stream] = "active"]
               /\ Goto(t, "st_cb")
               /\ UNCHANGED exc
    /\ UNCHANGED <<engineVars, outerVars, cbpc, cbBlock, now, op, ret, won, origin, historyVars>>

\* capture.py 90-91: on_recording_start, then start() returns.
StartNotify(t) ==
    /\ pc[t] = "st_cb"
    /\ trayRecording' = IF on_recording_stop = "Application._on_recording_stop"
                        THEN TRUE ELSE trayRecording
    /\ Goto(t, AfterStart(t))
    /\ UNCHANGED <<engineVars, configVars, hotkeyVars, toolVars, widgetRecording,
                   configured, afterQueue, tasks, deviceVars, now, op, ret, exc, won,
                   origin, historyVars>>

\* ------------------------------------- stream teardown (stop and cancel)
\* `if self._stream:` (capture.py 101, 125)
TeardownTest(t, here, halt, after) ==
    /\ pc[t] = here
    /\ Goto(t, IF stream # None THEN halt ELSE after)
    /\ UNCHANGED <<engineVars, outerVars, deviceVars, now, op, ret, exc, won, origin, historyVars>>

\* `self._stream.stop()` (capture.py 102, 126): reads the field again; stopping
\* an active stream returns once its callback in flight has returned, and
\* stopping any other stream is ignored (ignore_errors).
TeardownHalt(t, here, next) ==
    /\ pc[t] = here
    /\ IF stream = None
       THEN /\ Raise(t, "AttributeError")
            /\ UNCHANGED streamState
       ELSE /\ streamState[stream] = "active" => cbpc[stream] = "idle"
            /\ streamState' = [streamState EXCEPT ![stream] =
                                  IF @ = "active" THEN "stopped" ELSE @]
            /\ Goto(t, next)
            /\ UNCHANGED exc
    /\ UNCHANGED <<engineVars, outerVars, cbpc, cbBlock, now, op, ret, won, origin, historyVars>>

\* `self._stream.close()` (capture.py 103, 127)
TeardownClose(t, here, next) ==
    /\ pc[t] = here
    /\ IF stream = None
       THEN /\ Raise(t, "AttributeError")
            /\ UNCHANGED streamState
       ELSE /\ streamState[stream] = "active" => cbpc[stream] = "idle"
            /\ streamState' = [streamState EXCEPT ![stream] = "closed"]
            /\ Goto(t, next)
            /\ UNCHANGED exc
    /\ UNCHANGED <<engineVars, outerVars, cbpc, cbBlock, now, op, ret, won, origin, historyVars>>

\* `self._stream = None` (capture.py 104, 128)
TeardownNull(t, here, next) ==
    /\ pc[t] = here
    /\ stream' = None
    /\ Goto(t, next)
    /\ UNCHANGED <<recording, frames, start_time, last_sound_time, on_recording_stop,
                   outerVars, deviceVars, now, op, ret, exc, won, origin, historyVars>>

\* --------------------------------------------------- AudioCapture.stop
\* stop() that clears the flag without testing it first.
StopLockNoTest(t) ==
    /\ pc[t] = "sp_lock"
    /\ recording' = FALSE
    /\ won' = [won EXCEPT ![t] = session]
    /\ Goto(t, "sp_test")
    /\ UNCHANGED <<frames, stream, start_time, last_sound_time, on_recording_stop,
                   outerVars, deviceVars, now, op, ret, exc, origin, historyVars>>

\* stop() that goes on to the teardown also when the flag is already false.
StopLockNoReturn(t) ==
    /\ pc[t] = "sp_lock"
    /\ recording' = FALSE
    /\ won' = [won EXCEPT ![t] = IF recording THEN session ELSE @]
    /\ Goto(t, "sp_test")
    /\ UNCHANGED <<frames, stream, start_time, last_sound_time, on_recording_stop,
                   outerVars, deviceVars, now, op, ret, exc, origin, historyVars>>

\* capture.py 95-99: test and flip of the flag under the lock.
StopLock(t) ==
    /\ pc[t] = "sp_lock"
    /\ IF ~recording
       THEN /\ ret' = [ret EXCEPT ![t] = None]
            /\ Goto(t, AfterStop(t))
            /\ UNCHANGED <<recording, won>>
       ELSE /\ recording' = FALSE
            /\ won' = [won EXCEPT ![t] = session]
            /\ Goto(t, "sp_test")
            /\ UNCHANGED ret
    /\ UNCHANGED <<frames, stream, start_time, last_sound_time, on_recording_stop,
                   outerVars, deviceVars, now, op, exc, origin, historyVars>>

StopTest(t) == TeardownTest(t, "sp_test", "sp_halt", "sp_frames")
StopHalt(t) == TeardownHalt(t, "sp_halt", "sp_close")
StopClose(t) == TeardownClose(t, "sp_close", "sp_null")
StopNull(t) == TeardownNull(t, "sp_null", "sp_frames")

\* stop() going on to the save without testing the buffer.
StopFramesNoTest(t) ==
    /\ pc[t] = "sp_frames"
    /\ Goto(t, "sp_save")
    /\ UNCHANGED <<engineVars, outerVars, deviceVars, now, op, ret, exc, won, origin, historyVars>>

\* capture.py 106-108: `if not self._frames: return None`
StopFrames(t) ==
    /\ pc[t] = "sp_frames"
    /\ IF frames = <<>>
       THEN /\ ret' = [ret EXCEPT ![t] = None]
            /\ Goto(t, AfterStop(t))
       ELSE /\ Goto(t, "sp_save")
            /\ UNCHANGED ret
    /\ UNCHANGED <<engineVars, outerVars, deviceVars, now, op, exc, won, origin, historyVars>>

\* capture.py 110-112: np.concatenate(self._frames) and _save_wav; concatenate
\* raises ValueError on an empty list.
StopSave(t) ==
    /\ pc[t] = "sp_save"
    /\ IF frames = <<>>
       THEN /\ Raise(t, "ValueError")
            /\ UNCHANGED <<ret, artifacts>>
       ELSE /\ artifacts' = Append(artifacts, [session |-> won[t], frames |-> frames])
            /\ ret' = [ret EXCEPT ![t] = Len(artifacts) + 1]
            /\ Goto(t, "sp_cb")
            /\ UNCHANGED exc
    /\ UNCHANGED <<engineVars, outerVars, deviceVars, now, op, won, origin, session, handed,
                   lastLoud>>

\* The controller holding back the transcriber while another one runs.
StopNotifySerialized(t) ==
    /\ pc[t] = "sp_cb"
    /\ handed' = IF op[t] \in {"toggle", "click"}
                 THEN [handed EXCEPT ![ret[t]] = @ + 1]
                 ELSE handed
    /\ tasks' = IF op[t] \in {"toggle", "click"}
                THEN Append(tasks,
                            [artifact |-> ret[t], by |-> "Application._process_recording",
                             state |-> IF \E i \in DOMAIN tasks : tasks[i].state = "running"
                                       THEN "waiting" ELSE "running"])
                ELSE tasks
    /\ Goto(t, AfterStop(t))
    /\ UNCHANGED <<engineVars, configVars, toolVars, hotkeyVars, widgetRecording, configured, trayRecording,
                   afterQueue, deviceVars, now, op, ret, exc, won, origin, session, artifacts,
                   lastLoud>>

\* capture.py 114-117: on_recording_stop(filepath), then return filepath to
\* the caller, which goes on with it:
\*   Application._on_recording_stop (app.py 226-228) only updates the tray, and
\*   Application._toggle_recording (app.py 178-185) starts a transcriber
\*   thread for the path stop() returned;
\*   WidgetApp._on_recording_complete_threadsafe (widget_app.py 122-124)
\*   queues _on_recording_complete(path) on the main loop, and
\*   WidgetApp._stop_recording (widget_app.py 134-136) calls
\*   _on_recording_complete(path) itself, which starts a transcriber thread.
StopNotify(t) ==
    /\ pc[t] = "sp_cb"
    /\ afterQueue' = IF on_recording_stop = "WidgetApp._on_recording_complete_threadsafe"
                     THEN Append(afterQueue, [fn |-> "_on_recording_complete",
                                              arg |-> ret[t]])
                     ELSE afterQueue
    /\ handed' = IF op[t] \in {"toggle", "click"}
                 THEN [handed EXCEPT ![ret[t]] = @ + 1]
                 ELSE handed
    /\ tasks' = IF op[t] = "toggle"
                THEN Append(tasks, NewTask(ret[t], "Application._process_recording"))
                ELSE IF op[t] = "click"
                THEN Append(tasks, NewTask(ret[t], "WidgetApp._transcribe"))
                ELSE tasks
    /\ trayRecording' = IF on_recording_stop = "Application._on_recording_stop"
                        THEN FALSE ELSE trayRecording
    /\ Goto(t, AfterStop(t))
    /\ UNCHANGED <<engineVars, configVars, toolVars, hotkeyVars, widgetRecording, configured,
                   deviceVars, now, op, ret, exc, won, origin, session, artifacts, lastLoud>>

\* ------------------------------------------------- AudioCapture.cancel
\* capture.py 121-123
CancelLock(t) ==
    /\ pc[t] = "cn_lock"
    /\ recording' = FALSE
    /\ frames' = <<>>
    /\ Goto(t, "cn_test")
    /\ UNCHANGED <<stream, start_time, last_sound_time, on_recording_stop,
                   outerVars, deviceVars, now, op, ret, exc, won, origin, historyVars>>

CancelTest(t) == TeardownTest(t, "cn_test", "cn_halt", AfterCancel(t))
CancelHalt(t) == TeardownHalt(t, "cn_halt", "cn_close")
CancelClose(t) == TeardownClose(t, "cn_close", "cn_null")
CancelNull(t) == TeardownNull(t, "cn_null", AfterCancel(t))

\* ------------------------------------- AudioCapture._audio_callback
\* capture.py 155-156: the flag test. A callback that finds the flag false
\* returns without touching anything, so only the other branch is a step.
CallbackCheck(s, delivered) ==
    /\ streamState[s] = "active"
    /\ cbpc[s] = "idle"
    /\ recording
    /\ Len(frames) < MaxFrames
    /\ \E b \in delivered : cbBlock' = [cbBlock EXCEPT ![s] = b]
    /\ cbpc' = [cbpc EXCEPT ![s] = "append"]
    /\ UNCHANGED <<engineVars, outerVars, streamState, now, threadVars, historyVars>>

\* A block whose RMS is strictly above silence_threshold.
Loud(samples) ==
    SumSq(samples) > silence_threshold * silence_threshold * Len(samples)

\* capture.py 167-168
LastSoundAfter(samples) ==
    IF RmsAbove(samples, silence_threshold) THEN now ELSE last_sound_time

\* The silence test without the `silence_duration > 0` guard.
SilenceTriggerUnguarded(samples) ==
    (now - LastSoundAfter(samples)) > silence_duration

\* capture.py 170
SilenceTrigger(samples) ==
    silence_duration > 0 /\ (now - LastSoundAfter(samples)) > silence_duration

\* capture.py 62-66
elapsed == IF ~recording THEN 0 ELSE now - start_time

\* The guard firing already at the limit.
DurationTriggerAtLimit == max_duration > 0 /\ elapsed >= max_duration

\* The guard reading the elapsed time of an engine that does not record.
DurationTriggerWhenIdle == max_duration > 0 /\ ~recording /\ elapsed > max_duration

\* capture.py 176
DurationTrigger == max_duration > 0 /\ elapsed > max_duration

\* The callback running stop() itself when a guard triggers.
CallbackStopsInline(s) ==
    /\ cbpc[s] = "append"
    /\ frames' = Append(frames, [src |-> s, data |-> cbBlock[s]])
    /\ last_sound_time' = LastSoundAfter(cbBlock[s])
    /\ cbpc' = [cbpc EXCEPT ![s] = "idle"]
    /\ cbBlock' = [cbBlock EXCEPT ![s] = <<>>]
    /\ recording' = IF SilenceTrigger(cbBlock[s]) \/ DurationTrigger THEN FALSE
                    ELSE recording
    /\ lastLoud' = IF Loud(cbBlock[s]) THEN now ELSE lastLoud
    /\ UNCHANGED <<stream, start_time, on_recording_stop, outerVars, op, pc,
                   streamState, now, ret, exc, won, origin, session, artifacts, handed>>

\* capture.py 158-178: append, level, silence detection, max duration guard.
CallbackAppend(s) ==
    /\ cbpc[s] = "append"
    /\ frames' = Append(frames, [src |-> s, data |-> cbBlock[s]])
    /\ last_sound_time' = LastSoundAfter(cbBlock[s])
    /\ cbpc' = [cbpc EXCEPT ![s] = "idle"]
    /\ cbBlock' = [cbBlock EXCEPT ![s] = <<>>]
    /\ IF SilenceTrigger(cbBlock[s])
       THEN /\ FreeThreads # {}
            /\ Spawn(NextThread, "autostop_silence", "sp_lock")
            /\ origin' = [origin EXCEPT ![NextThread] = origin[s]]
       ELSE IF DurationTrigger
       THEN /\ FreeThreads # {}
            /\ Spawn(NextThread, "autostop_duration", "sp_lock")
            /\ origin' = [origin EXCEPT ![NextThread] = origin[s]]
       ELSE UNCHANGED <<op, pc, origin>>
    /\ lastLoud' = IF Loud(cbBlock[s]) THEN now ELSE lastLoud
    /\ UNCHANGED <<recording, stream, start_time, on_recording_stop, outerVars,
                   streamState, now, ret, exc, won, session, artifacts, handed>>

\* time.monotonic() advances. Only start() and the callback read the clock,
\* and start() resets both timestamps to it, so time that passes while nothing
\* records and no callback is in flight shifts every later reading alike.
Tick(horizon) ==
    /\ now < horizon
    /\ recording \/ \E s \in Streams : cbpc[s] = "append"
    /\ now' = now + 1
    /\ UNCHANGED <<engineVars, outerVars, deviceVars, threadVars, historyVars>>

\* ------------------------------------------------- transcriber threads
\* What the transcription and correction collaborators may do with a file.
Outcomes == {"text", "RequestFailed"}

\* The worker without its try/except: a failure ends the thread unreported.
WorkerRunUncaught(i) ==
    /\ i \in DOMAIN tasks
    /\ tasks[i].state = "running"
    /\ \E outcome \in Outcomes :
          tasks' = [tasks EXCEPT ![i].state = IF outcome = "text" THEN "ok" ELSE "crashed"]
    /\ UNCHANGED <<engineVars, configVars, toolVars, hotkeyVars, widgetRecording, configured, trayRecording,
                   afterQueue, deviceVars, now, threadVars, historyVars>>

\* app.py 230-245 Application._process_recording and widget_app.py 149-176
\* WidgetApp._transcribe: the whole body runs inside try/except Exception; the
\* handler logs and notifies the tray (app.py 242-245), resp. queues
\* _show_error on the main loop (widget_app.py 172-176).
WorkerRun(i) ==
    /\ i \in DOMAIN tasks
    /\ tasks[i].state = "running"
    /\ \E outcome \in Outcomes :
          /\ tasks' = [tasks EXCEPT ![i].state =
                           IF outcome = "text" THEN "ok" ELSE "reported"]
          /\ afterQueue' =
                IF tasks[i].by = "WidgetApp._transcribe"
                THEN Append(afterQueue,
                            [fn |-> IF outcome = "text" THEN "_show_result"
                                    ELSE "_show_error",
                             arg |-> tasks[i].artifact])
                ELSE afterQueue
    /\ UNCHANGED <<engineVars, configVars, toolVars, hotkeyVars, widgetRecording, configured, trayRecording,
                   deviceVars, now, threadVars, historyVars>>

\* a transcriber thread per artifact at most twice (stop() result and callback)
TaskIds == 1..(2 * MaxThreads)

\* ------------------------------------------ AudioCapture.list_devices
\* Entries of sd.query_devices(): an input, an output, a two-channel input.
DeviceKinds == { [name |-> "mic", max_input_channels |-> 1],
                 [name |-> "speakers", max_input_channels |-> 0],
                 [name |-> "interface", max_input_channels |-> 2] }

RECURSIVE DeviceLists(_)
DeviceLists(n) ==
    IF n = 0 THEN {<<>>}
    ELSE LET shorter == DeviceLists(n - 1)
         IN  shorter \cup {Append(l, d) : l \in {x \in shorter : Len(x) = n - 1},
                                           d \in DeviceKinds}

\* What the device query does on this machine: the list, or PortAudioError.
Hosts == {[ok |-> FALSE, devices |-> <<>>]}
             \cup {[ok |-> TRUE, devices |-> l] : l \in DeviceLists(MaxDevices)}

NotCalled == [called |-> FALSE, raised |-> "", value |-> <<>>]

\* capture.py 141-145: the loop over enumerate(devices), from position i on
RECURSIVE Inputs(_, _)
Inputs(devices, i) ==
    IF i > Len(devices) THEN <<>>
    ELSE IF devices[i].max_input_channels > 0
    THEN <<[index |-> i - 1, name |-> devices[i].name,
            channels |-> devices[i].max_input_channels]>> \o Inputs(devices, i + 1)
    ELSE Inputs(devices, i + 1)

\* capture.py 138-146 list_devices(): sd.query_devices() is called outside any
\* try, so what it raises leaves the method.
ListDevices ==
    /\ listed' = IF host.ok
                 THEN [called |-> TRUE, raised |-> "", value |-> Inputs(host.devices, 1)]
                 ELSE [called |-> TRUE, raised |-> "PortAudioError", value |-> <<>>]
    /\ UNCHANGED <<engineVars, configVars, uiVars, hotkeyVars, deviceVars, now,
                   threadVars, historyVars, host, ds_samples, disk, nextId>>

\* Devices are plugged and unplugged, the audio backend comes and goes.
HostChanges ==
    /\ host' \in Hosts
    /\ UNCHANGED <<engineVars, configVars, uiVars, hotkeyVars, deviceVars, now,
                   threadVars, historyVars, listed, ds_samples, disk, nextId>>

\* ---------------------------------------------------- FinetuneDataset
NoFile == [exists |-> FALSE, data |-> <<>>]

\* dataset.py 39-47 SampleEntry(text=t) with a fresh id
NewSample(id, text) ==
    [id |-> id, text |-> text, audio_path |-> "", duration |-> 0, recorded |-> FALSE]

\* dataset.py 192 asdict(s) written by json.dump: the flag as JSON true/false
Dump(sample) ==
    [id |-> sample.id, text |-> sample.text, audio_path |-> sample.audio_path,
     duration |-> sample.duration,
     recorded |-> IF sample.recorded THEN "true" ELSE "false"]

\* dataset.py 197-198 json.load and SampleEntry(**d)
Load(d) ==
    [id |-> d.id, text |-> d.text, audio_path |-> d.audio_path,
     duration |-> d.duration, recorded |-> (d.recorded = "true")]

\* dataset.py 190-192 _save_sentences: the file after the call
Saved(list) == [exists |-> TRUE, data |-> [i \in 1..Len(list) |-> Dump(list[i])]]

\* dataset.py 194-199 _load: the samples of a dataset constructed on the directory
Loaded ==
    IF disk.exists THEN [i \in 1..Len(disk.data) |-> Load(disk.data[i])] ELSE <<>>

\* Files a recording path may name: none, a WAV file of 2 s, a file that is
\* not audio (sf.info raises on it).
AudioFiles == {"missing.wav", "take.wav", "notes.txt"}
SentenceTexts == {"a", "b"}
SentenceLists == {<<"a">>, <<"a", "b">>}

\* dataset.py 105-110 get_sample: position of the first sample with the id, 0 if none
Position(id) ==
    IF \E i \in 1..Len(ds_samples) : ds_samples[i].id = id
    THEN CHOOSE i \in 1..Len(ds_samples) :
             /\ ds_samples[i].id = id
             /\ \A j \in 1..(i - 1) : ds_samples[j].id # id
    ELSE 0

DatasetFrame ==
    UNCHANGED <<engineVars, configVars, uiVars, hotkeyVars, deviceVars, now,
                threadVars, historyVars, host, listed>>

\* dataset.py 87-96 initialize(sentences), called with a non-empty list
Initialize(texts) ==
    /\ nextId + Len(texts) <= MaxIds
    /\ ds_samples' = [i \in 1..Len(texts) |-> NewSample(nextId + i, texts[i])]
    /\ nextId' = nextId + Len(texts)
    /\ disk' = Saved(ds_samples')
    /\ DatasetFrame

\* dataset.py 138-143 add_sentence
AddSentence(text) ==
    /\ nextId < MaxIds
    /\ ds_samples' = Append(ds_samples, NewSample(nextId + 1, text))
    /\ nextId' = nextId + 1
    /\ disk' = Saved(ds_samples')
    /\ DatasetFrame

\* dataset.py 145-152 remove_sentence
RemoveSentence(id) ==
    /\ IF Position(id) # 0
       THEN /\ ds_samples' = [i \in 1..(Len(ds_samples) - 1) |->
                                  IF i < Position(id) THEN ds_samples[i]
                                  ELSE ds_samples[i + 1]]
            /\ disk' = Saved(ds_samples')
       ELSE UNCHANGED <<ds_samples, disk>>
    /\ UNCHANGED nextId
    /\ DatasetFrame

\* dataset.py 116-136 mark_recorded: ValueError for an unknown id and
\* FileNotFoundError for a missing file before anything is written;
\* sample.audio_path is assigned (131) before get_audio_duration (132), which
\* raises on a file that is not audio, so that the assignments after it and
\* _save_sentences (135) do not run.
MarkRecorded(id, file) ==
    /\ IF Position(id) = 0 \/ file = "missing.wav"
       THEN UNCHANGED <<ds_samples, disk>>
       ELSE IF file = "notes.txt"
       THEN /\ ds_samples' = [ds_samples EXCEPT ![Position(id)].audio_path = file]
            /\ UNCHANGED disk
       ELSE /\ ds_samples' = [ds_samples EXCEPT ![Position(id)] =
                                  [@ EXCEPT !.audio_path = file, !.duration = 2,
                                            !.recorded = TRUE]]
            /\ disk' = Saved(ds_samples')
    /\ UNCHANGED nextId
    /\ DatasetFrame

\* dataset.py 179-186 reset
Reset ==
    /\ ds_samples' = [i \in 1..Len(ds_samples) |->
                         [ds_samples[i] EXCEPT !.audio_path = "", !.duration = 0,
                                               !.recorded = FALSE]]
    /\ disk' = Saved(ds_samples')
    /\ UNCHANGED nextId
    /\ DatasetFrame

\* ------------------------------------------------------- Application
\* hotkey/manager.py 156 (and ui/tray.py 138-140) start the toggle action on
\* a thread of its own; app.py 175 `if self.capture.is_recording` is its
\* first access and picks stop() or start().
FireToggle ==
    /\ FreeThreads # {}
    /\ Spawn(NextThread, "toggle", IF recording THEN "sp_lock" ELSE "st_lock")
    /\ UNCHANGED <<engineVars, outerVars, deviceVars, now, ret, exc, won, origin, historyVars>>

\* The cancel action calling cancel() whatever the flag says.
FireCancelAlways ==
    /\ FreeThreads # {}
    /\ Spawn(NextThread, "cancel", "cn_lock")
    /\ UNCHANGED <<engineVars, outerVars, deviceVars, now, ret, exc, won, origin, historyVars>>

\* app.py 194-196: tray.set_recording(False) and the "Recording cancelled"
\* notification, after cancel() has returned.
CancelNotify(t) ==
    /\ pc[t] = "cc_notify"
    /\ trayRecording' = FALSE
    /\ Goto(t, "done")
    /\ UNCHANGED <<engineVars, configVars, hotkeyVars, toolVars, widgetRecording,
                   configured, afterQueue, tasks, deviceVars, now, op, ret, exc, won,
                   origin, historyVars>>

\* hotkey/manager.py 156 starts the cancel action on a thread of its own;
\* app.py 192 `if self.capture.is_recording` is its first access.
FireCancel ==
    /\ FreeThreads # {}
    /\ Spawn(NextThread, "cancel", IF recording THEN "cn_lock" ELSE "done")
    /\ UNCHANGED <<engineVars, outerVars, deviceVars, now, ret, exc, won, origin, historyVars>>

\* ------------------------------------------------------ specifications
StartStep(t) == StartLock(t) \/ StartOpen(t) \/ StartStream(t) \/ StartNotify(t)

StopStep(t) ==
    \/ StopLock(t) \/ StopTest(t) \/ StopHalt(t) \/ StopClose(t) \/ StopNull(t)
    \/ StopFrames(t) \/ StopSave(t) \/ StopNotify(t)

CancelStep(t) ==
    CancelLock(t) \/ CancelTest(t) \/ CancelHalt(t) \/ CancelClose(t) \/ CancelNull(t)

EngineStep(t) == StartStep(t) \/ StopStep(t) \/ CancelStep(t)

InitEngine ==
    /\ recording = FALSE
    /\ frames = <<>>
    /\ stream = None
    /\ start_time = 0
    /\ last_sound_time = 0
    /\ silence_threshold \in SilenceThresholds
    /\ streamState = [s \in Streams |-> "none"]
    /\ cbpc = [s \in Streams |-> "idle"]
    /\ cbBlock = [s \in Streams |-> <<>>]
    /\ now \in InitialClock
    /\ op = [t \in Threads |-> "none"]
    /\ pc = [t \in Threads |-> "idle"]
    /\ ret = [t \in Threads |-> None]
    /\ exc = [t \in Threads |-> ""]
    /\ won = [t \in Threads |-> 0]
    /\ origin = [t \in Threads |-> 0]
    /\ session = 0
    /\ artifacts = <<>>
    /\ handed = [a \in Threads |-> 0]
    /\ lastLoud = 0

\* no widget
InitNoWidget ==
    /\ widgetRecording = FALSE
    /\ configured = FALSE
    /\ afterQueue = <<>>
    /\ tasks = <<>>
    /\ trayRecording = FALSE

\* list_devices() not called, no FinetuneDataset
InitNoTools ==
    /\ host = [ok |-> TRUE, devices |-> <<>>]
    /\ listed = NotCalled
    /\ ds_samples = <<>>
    /\ disk = NoFile
    /\ nextId = 0

\* _on_press is not in its loop over the bindings
NoMatching == [at |-> "none", used |-> 0, seen |-> {}]

\* no hotkey manager
InitNoHotkeys ==
    /\ bindings = <<>>
    /\ pressed = {}
    /\ running = FALSE
    /\ platform = "Linux"
    /\ held = {}
    /\ fired = <<>>
    /\ registry = <<>>
    /\ handling = ""
    /\ scan = NoMatching

\* Application (app.py): toggle and cancel actions fired from the hotkey
\* listener, each on its own thread, over one capture engine.
Init ==
    /\ InitEngine
    /\ InitNoTools
    /\ InitNoWidget
    /\ InitNoHotkeys
    /\ max_duration \in RaceMaxDurations
    /\ silence_duration \in RaceSilenceDurations
    /\ on_recording_stop = "Application._on_recording_stop"

Next ==
    \/ FireToggle
    \/ FireCancel
    \/ \E t \in Threads : EngineStep(t) \/ CancelNotify(t)
    \/ \E i \in TaskIds : WorkerRun(i)
    \/ \E s \in Streams : CallbackCheck(s, RaceBlocks) \/ CallbackAppend(s)
    \/ Tick(MaxRaceTime)

Spec == Init /\ [][Next]_vars

\* The Application's actions fired one after another, each after the thread
\* of the one before has ended, with the auto-stops switched off; blocks keep
\* arriving in between.
SerialToggle == AllReturned /\ FireToggle

SerialCancel == AllReturned /\ FireCancel

NextSerial ==
    \/ SerialToggle
    \/ SerialCancel
    \/ \E t \in Threads : EngineStep(t) \/ CancelNotify(t)
    \/ \E i \in TaskIds : WorkerRun(i)
    \/ \E s \in Streams : CallbackCheck(s, Blocks) \/ CallbackAppend(s)
    \/ Tick(MaxRaceTime)

InitSerial ==
    /\ InitEngine
    /\ InitNoTools
    /\ InitNoWidget
    /\ InitNoHotkeys
    /\ max_duration \in NoAutoStop
    /\ silence_duration \in NoAutoStop
    /\ on_recording_stop = "Application._on_recording_stop"

SpecSerial == InitSerial /\ [][NextSerial]_vars

\* Sessions one after another: a toggle is fired once the action before has
\* returned; a thread that has ended is gone, and its slot serves the next
\* thread started (threading.Thread objects are created per action, app.py
\* 179-184, manager.py 156). Transcriber threads run on as long as they take.
ThreadExits(t) ==
    /\ pc[t] \in {"done", "raised"}
    /\ streamState[t] \in {"none", "closed"}
    /\ op' = [op EXCEPT ![t] = "none"]
    /\ pc' = [pc EXCEPT ![t] = "idle"]
    /\ ret' = [ret EXCEPT ![t] = None]
    /\ exc' = [exc EXCEPT ![t] = ""]
    /\ won' = [won EXCEPT ![t] = 0]
    /\ origin' = [origin EXCEPT ![t] = 0]
    /\ UNCHANGED <<engineVars, outerVars, deviceVars, now, historyVars>>

RelayToggle ==
    /\ AllReturned
    /\ recording \/ session < MaxSessions
    /\ FireToggle

NextRelay ==
    \/ RelayToggle
    \/ \E t \in Threads : StartStep(t) \/ StopStep(t) \/ ThreadExits(t)
    \/ \E i \in TaskIds : WorkerRun(i)
    \/ \E s \in Streams : CallbackCheck(s, RaceBlocks) \/ CallbackAppend(s)
    \/ Tick(MaxRaceTime)

SpecRelay == InitSerial /\ [][NextRelay]_vars

\* Sessions of the engine one after another with the duration guard on: the
\* user calls start() and stop() in turn, each after the call before has
\* returned, while the stop() threads the callbacks start run when they are
\* scheduled.
UserCalls == {"start", "stop"}
UserReturned == \A t \in Threads : op[t] \in UserCalls => Quiet(t)

UserStart ==
    /\ UserReturned
    /\ ~recording
    /\ session < MaxSessions
    /\ FreeThreads # {}
    /\ Spawn(NextThread, "start", "st_lock")
    /\ UNCHANGED <<engineVars, outerVars, deviceVars, now, ret, exc, won, origin,
                   historyVars>>

UserStop ==
    /\ UserReturned
    /\ recording
    /\ FreeThreads # {}
    /\ Spawn(NextThread, "stop", "sp_lock")
    /\ UNCHANGED <<engineVars, outerVars, deviceVars, now, ret, exc, won, origin,
                   historyVars>>

InitAutoStop ==
    /\ InitEngine
    /\ InitNoTools
    /\ InitNoWidget
    /\ InitNoHotkeys
    /\ max_duration \in RaceMaxDurations
    /\ silence_duration \in RaceSilenceDurations
    /\ on_recording_stop = "None"

NextAutoStop ==
    \/ UserStart
    \/ UserStop
    \/ \E t \in Threads : StartStep(t) \/ StopStep(t) \/ ThreadExits(t)
    \/ \E s \in Streams : CallbackCheck(s, RaceBlocks) \/ CallbackAppend(s)
    \/ Tick(MaxRaceTime)

SpecAutoStop == InitAutoStop /\ [][NextAutoStop]_vars

\* One session of the engine driven through its public API (cli.py 147-150):
\* one start() call, stop() calls by API users at any time, and the auto-stops
\* the callbacks schedule.
CallStart ==
    /\ \A t \in Threads : op[t] # "start"
    /\ FreeThreads # {}
    /\ Spawn(NextThread, "start", "st_lock")
    /\ UNCHANGED <<engineVars, outerVars, deviceVars, now, ret, exc, won, origin, historyVars>>

CallStop ==
    /\ session > 0
    /\ FreeThreads # {}
    /\ Spawn(NextThread, "stop", "sp_lock")
    /\ UNCHANGED <<engineVars, outerVars, deviceVars, now, ret, exc, won, origin, historyVars>>

InitSession ==
    /\ InitEngine
    /\ InitNoTools
    /\ InitNoWidget
    /\ InitNoHotkeys
    /\ max_duration \in MaxDurations
    /\ silence_duration \in SilenceDurations
    /\ on_recording_stop = "None"

NextSession ==
    \/ CallStart
    \/ CallStop
    \/ \E t \in Threads : StartStep(t) \/ StopStep(t)
    \/ \E s \in Streams : CallbackCheck(s, Blocks) \/ CallbackAppend(s)
    \/ Tick(MaxTime)

SpecSession == InitSession /\ [][NextSession]_vars

\* One session left to itself: start() is called once and nobody calls stop().
\* The device delivers block after block, one block period apart, as long as
\* the stream is active (sd.InputStream, capture.py 81-87); its callback runs
\* for each block, and every started thread gets to run.
BlockArrives(s) ==
    /\ streamState[s] = "active"
    /\ cbpc[s] = "idle"
    /\ recording
    /\ Len(frames) < MaxFrames
    /\ now < MaxTime
    /\ now' = now + 1
    /\ \E b \in Blocks : cbBlock' = [cbBlock EXCEPT ![s] = b]
    /\ cbpc' = [cbpc EXCEPT ![s] = "append"]
    /\ UNCHANGED <<engineVars, outerVars, streamState, threadVars, historyVars>>

InitUnattended ==
    /\ InitEngine
    /\ InitNoTools
    /\ InitNoWidget
    /\ InitNoHotkeys
    /\ max_duration \in RaceMaxDurations
    /\ silence_duration \in SilenceDurations
    /\ on_recording_stop = "None"

NextUnattended ==
    \/ CallStart
    \/ \E t \in Threads : StartStep(t) \/ StopStep(t)
    \/ \E s \in Streams : BlockArrives(s) \/ CallbackAppend(s)

Scheduling ==
    /\ \A t \in Threads : WF_vars(StartStep(t)) /\ WF_vars(StopStep(t))
    /\ \A s \in Streams : WF_vars(BlockArrives(s)) /\ WF_vars(CallbackAppend(s))

SpecUnattended == InitUnattended /\ [][NextUnattended]_vars /\ Scheduling

\* AudioCapture.toggle() called again and again by one caller, each call
\* after the one before has returned (tests/test_audio.py 20-27), with the
\* auto-stops switched off (max_duration = 0, silence_duration = 0).

\* toggle() that starts whatever the flag says.
ToggleAlwaysStarts ==
    /\ AllReturned
    /\ FreeThreads # {}
    /\ Spawn(NextThread, IF recording THEN "toggle_stop" ELSE "toggle_start", "st_lock")
    /\ UNCHANGED <<engineVars, outerVars, deviceVars, now, ret, exc, won, origin, historyVars>>

\* capture.py 131-136: `if self.is_recording: return self.stop()`, else
\* `self.start(); return None`.
CallToggle ==
    /\ AllReturned
    /\ FreeThreads # {}
    /\ IF recording
       THEN Spawn(NextThread, "toggle_stop", "sp_lock")
       ELSE Spawn(NextThread, "toggle_start", "st_lock")
    /\ UNCHANGED <<engineVars, outerVars, deviceVars, now, ret, exc, won, origin, historyVars>>

InitToggle ==
    /\ InitEngine
    /\ InitNoTools
    /\ InitNoWidget
    /\ InitNoHotkeys
    /\ max_duration \in NoAutoStop
    /\ silence_duration \in NoAutoStop
    /\ on_recording_stop = "None"

NextToggle ==
    \/ CallToggle
    \/ \E t \in Threads : StartStep(t) \/ StopStep(t)
    \/ \E s \in Streams : CallbackCheck(s, Blocks) \/ CallbackAppend(s)
    \/ Tick(MaxTime)

SpecToggle == InitToggle /\ [][NextToggle]_vars

\* list_devices() called on a machine whose devices change.
InitDevices ==
    /\ InitEngine
    /\ InitNoWidget
    /\ InitNoHotkeys
    /\ max_duration \in NoAutoStop
    /\ silence_duration \in NoAutoStop
    /\ on_recording_stop = "None"
    /\ host \in Hosts
    /\ listed = NotCalled
    /\ ds_samples = <<>>
    /\ disk = NoFile
    /\ nextId = 0

NextDevices == ListDevices \/ HostChanges

SpecDevices == InitDevices /\ [][NextDevices]_vars

\* dataset.py 53-63: a dataset constructed on an empty directory
InitDataset ==
    /\ InitEngine
    /\ InitNoWidget
    /\ InitNoHotkeys
    /\ max_duration \in NoAutoStop
    /\ silence_duration \in NoAutoStop
    /\ on_recording_stop = "None"
    /\ host = [ok |-> TRUE, devices |-> <<>>]
    /\ listed = NotCalled
    /\ ds_samples = <<>>
    /\ disk = NoFile
    /\ nextId = 0

NextDataset ==
    \/ \E texts \in SentenceLists : Initialize(texts)
    \/ \E text \in SentenceTexts : AddSentence(text)
    \/ \E id \in 1..MaxIds : RemoveSentence(id)
    \/ \E id \in 1..MaxIds, file \in AudioFiles : MarkRecorded(id, file)
    \/ Reset

SpecDataset == InitDataset /\ [][NextDataset]_vars

\* ---------------------------------------------------------- WidgetApp
\* The Tk main loop runs one handler at a time: a click handler or a queued
\* callback.
MainLoopIdle == \A t \in Threads : op[t] = "click" => Quiet(t)

\* ui/widget.py 208-213 -> widget_app.py 102-108 _toggle_recording, then
\* _stop_recording up to capture.stop() (126-133) or _start_recording up to
\* capture.start() (110-119), which then run on the main loop.
Click ==
    /\ MainLoopIdle
    /\ FreeThreads # {}
    /\ IF widgetRecording
       THEN /\ widgetRecording' = FALSE
            /\ Spawn(NextThread, "click", "sp_lock")
            /\ UNCHANGED on_recording_stop
       ELSE IF ~configured
       THEN UNCHANGED <<widgetRecording, on_recording_stop, op, pc>>
       ELSE /\ widgetRecording' = TRUE
            /\ on_recording_stop' = "WidgetApp._on_recording_complete_threadsafe"
            /\ Spawn(NextThread, "click", "st_lock")
    /\ UNCHANGED <<recording, frames, stream, start_time, last_sound_time, configVars,
                   toolVars,
                   hotkeyVars, configured, trayRecording, afterQueue, tasks, deviceVars, now, ret, exc,
                   won, origin, historyVars>>

\* ui/widget.py 274-276 root.after(0, callback): the main loop runs the queued
\* callback: _on_recording_complete(path) (widget_app.py 141-145) starts a
\* transcriber thread; _show_result and _show_error (198-206) redraw the widget.
RunQueued ==
    /\ MainLoopIdle
    /\ afterQueue # <<>>
    /\ IF Head(afterQueue).fn = "_on_recording_complete"
       THEN /\ handed' = [handed EXCEPT ![Head(afterQueue).arg] = @ + 1]
            /\ tasks' = Append(tasks, NewTask(Head(afterQueue).arg, "WidgetApp._transcribe"))
       ELSE UNCHANGED <<handed, tasks>>
    /\ afterQueue' = Tail(afterQueue)
    /\ UNCHANGED <<engineVars, configVars, toolVars, hotkeyVars, widgetRecording, configured, trayRecording,
                   deviceVars, now, threadVars, session, artifacts, lastLoud>>

InitWidget ==
    /\ InitEngine
    /\ InitNoTools
    /\ InitNoHotkeys
    /\ max_duration \in RaceMaxDurations
    /\ silence_duration \in RaceSilenceDurations
    /\ on_recording_stop = "None"
    /\ widgetRecording = FALSE
    /\ configured \in BOOLEAN
    /\ afterQueue = <<>>
    /\ tasks = <<>>
    /\ trayRecording = FALSE

NextWidget ==
    \/ Click
    \/ RunQueued
    \/ \E t \in Threads : StartStep(t) \/ StopStep(t)
    \/ \E i \in TaskIds : WorkerRun(i)
    \/ \E s \in Streams : CallbackCheck(s, RaceBlocks) \/ CallbackAppend(s)
    \/ Tick(MaxRaceTime)

SpecWidget == InitWidget /\ [][NextWidget]_vars

\* ------------------------------------------------------ HotkeyManager
\* Keys of the keyboard the runs press (pynput Key members and characters).
PhysicalKeys == {"ctrl_l", "ctrl_r", "shift_l", "h", "j", "esc", "x"}

\* manager.py 134-144 _normalize_key
Normalize(key) ==
    CASE key = "ctrl_r" -> "ctrl_l"
      [] key = "shift_r" -> "shift_l"
      [] key = "alt_r" -> "alt_l"
      [] key = "alt_gr" -> "alt_l"
      [] OTHER -> key

\* manager.py 47 p.strip().lower(), on the tokens the runs use
Lower(token) ==
    CASE token = "<Ctrl>" -> "<ctrl>"
      [] token = "<SHIFT>" -> "<shift>"
      [] token = "H" -> "h"
      [] token = " h " -> "h"
      [] OTHER -> token

\* manager.py 29-35 _MODIFIER_MAP
ModifierTokens == {"<ctrl>", "<shift>", "<alt>", "<cmd>", "<super>"}
ModifierMap(token) ==
    CASE token = "<ctrl>" -> "ctrl_l"
      [] token = "<shift>" -> "shift_l"
      [] token = "<alt>" -> "alt_l"
      [] token \in {"<cmd>", "<super>"} -> IF platform = "Darwin" THEN "cmd" ELSE "ctrl_l"

\* manager.py 36-45 _SPECIAL_MAP
SpecialTokens == {"<escape>", "<esc>", "<space>", "<tab>", "<enter>", "<return>",
                  "<backspace>", "<delete>"}
SpecialMap(token) ==
    CASE token \in {"<escape>", "<esc>"} -> "esc"
      [] token = "<space>" -> "space"
      [] token = "<tab>" -> "tab"
      [] token \in {"<enter>", "<return>"} -> "enter"
      [] token = "<backspace>" -> "backspace"
      [] token = "<delete>" -> "delete"

\* single characters (len(part) == 1)
Characters == {"h", "j", "x"}

\* The parser giving up at the first unknown part.
RECURSIVE ParseUntilUnknown(_)
ParseUntilUnknown(parts) ==
    IF parts = <<>> THEN {}
    ELSE LET part == Lower(Head(parts))
             rest == ParseUntilUnknown(Tail(parts))
         IN  IF part \in ModifierTokens THEN {ModifierMap(part)} \cup rest
             ELSE IF part \in SpecialTokens THEN {SpecialMap(part)} \cup rest
             ELSE IF part \in Characters THEN {part} \cup rest
             ELSE {}

\* manager.py 47-60: the keys of a chord string, given as its "+"-separated
\* parts; an unknown part is dropped.
RECURSIVE ParseHotkey(_)
ParseHotkey(parts) ==
    IF parts = <<>> THEN {}
    ELSE LET part == Lower(Head(parts))
             rest == ParseHotkey(Tail(parts))
         IN  IF part \in ModifierTokens THEN {ModifierMap(part)} \cup rest
             ELSE IF part \in SpecialTokens THEN {SpecialMap(part)} \cup rest
             ELSE IF part \in Characters THEN {part} \cup rest
             ELSE rest

\* manager.py 81-82: the table after register(name, hotkey_str, callback)
Registered(table, name, parts, callback) ==
    [n \in DOMAIN table \cup {name} |->
        IF n = name THEN [keys |-> ParseHotkey(parts), action |-> callback]
        ELSE table[n]]

\* what register(name, hotkey_str, callback) was last called with
Noted(table, name, parts, callback) ==
    [n \in DOMAIN table \cup {name} |->
        IF n = name THEN [str |-> parts, action |-> callback] ELSE table[n]]

\* manager.py 73-83 register
Register(name, parts, callback) ==
    /\ bindings' = Registered(bindings, name, parts, callback)
    /\ registry' = Noted(registry, name, parts, callback)
    /\ UNCHANGED <<engineVars, configVars, toolVars, uiVars, deviceVars, now, threadVars,
                   historyVars, pressed, running, platform, held, fired, handling, scan>>

\* unregister() that empties the table.
UnregisterAll(name) ==
    /\ bindings' = <<>>
    /\ registry' = [n \in DOMAIN registry \ {name} |-> registry[n]]
    /\ UNCHANGED <<engineVars, configVars, toolVars, uiVars, deviceVars, now, threadVars,
                   historyVars, pressed, running, platform, held, fired, handling, scan>>

\* manager.py 85-89 unregister
Unregister(name) ==
    /\ bindings' = IF name \in DOMAIN bindings
                   THEN [n \in DOMAIN bindings \ {name} |-> bindings[n]]
                   ELSE bindings
    /\ registry' = [n \in DOMAIN registry \ {name} |-> registry[n]]
    /\ UNCHANGED <<engineVars, configVars, toolVars, uiVars, deviceVars, now, threadVars,
                   historyVars, pressed, running, platform, held, fired, handling, scan>>

\* _on_press that stops at the first binding that matches.
OnPressFirstMatch(key) ==
    /\ pressed' = pressed \cup {Normalize(key)}
    /\ LET matching == {n \in DOMAIN bindings : bindings[n].keys \subseteq pressed'}
           first == IF matching = {} THEN {} ELSE {CHOOSE n \in matching : TRUE}
       IN  fired' = [n \in DOMAIN fired |->
                        IF n \in first THEN fired[n] + 1 ELSE fired[n]]

\* manager.py 146-156 _on_press
OnPress(key) ==
    /\ pressed' = pressed \cup {Normalize(key)}
    /\ fired' = [n \in DOMAIN fired |->
                    IF n \in DOMAIN bindings /\ bindings[n].keys \subseteq pressed'
                    THEN fired[n] + 1
                    ELSE fired[n]]

\* manager.py 158-161 _on_release
OnRelease(key) ==
    /\ pressed' = pressed \ {Normalize(key)}
    /\ UNCHANGED fired

\* The keyboard: a key goes down, a key held down repeats (the system sends
\* press events for it again), a key goes up; the listener passes each event on.
KeyDown(key) ==
    /\ running
    /\ key \notin held
    /\ \A n \in DOMAIN fired : fired[n] < MaxFires
    /\ held' = held \cup {key}
    /\ OnPress(key)
    /\ UNCHANGED <<engineVars, configVars, toolVars, uiVars, deviceVars, now, threadVars,
                   historyVars, bindings, running, platform, registry, handling, scan>>

KeyRepeat(key) ==
    /\ running
    /\ key \in held
    /\ \A n \in DOMAIN fired : fired[n] < MaxFires
    /\ OnPress(key)
    /\ UNCHANGED <<engineVars, configVars, toolVars, uiVars, deviceVars, now, threadVars,
                   historyVars, bindings, running, platform, held, registry, handling, scan>>

KeyUp(key) ==
    /\ running
    /\ key \in held
    /\ held' = held \ {key}
    /\ OnRelease(key)
    /\ UNCHANGED <<engineVars, configVars, toolVars, uiVars, deviceVars, now, threadVars,
                   historyVars, bindings, running, platform, registry, handling, scan>>

\* app.py 83-98: the three bindings Application.start() registers, with the
\* default chords, and the listener started.
BindingNames == {"toggle_recording", "cancel_recording", "correct_clipboard"}

InitHotkey ==
    /\ InitEngine
    /\ InitNoTools
    /\ InitNoWidget
    /\ max_duration \in RaceMaxDurations
    /\ silence_duration \in RaceSilenceDurations
    /\ on_recording_stop = "Application._on_recording_stop"
    /\ platform \in {"Linux", "Darwin"}
    /\ bindings =
         Registered(
           Registered(
             Registered(<<>>, "toggle_recording", <<"<ctrl>", "<shift>", "h">>,
                        "_toggle_recording"),
             "cancel_recording", <<"<escape>">>, "_cancel_recording"),
           "correct_clipboard", <<"<ctrl>", "<shift>", "j">>, "_correct_clipboard")
    /\ pressed = {}
    /\ running = TRUE
    /\ held = {}
    /\ handling = ""
    /\ scan = NoMatching
    /\ fired = [n \in BindingNames |-> 0]
    /\ registry =
         Noted(
           Noted(
             Noted(<<>>, "toggle_recording", <<"<ctrl>", "<shift>", "h">>,
                   "_toggle_recording"),
             "cancel_recording", <<"<escape>">>, "_cancel_recording"),
           "correct_clipboard", <<"<ctrl>", "<shift>", "j">>, "_correct_clipboard")

NextHotkey ==
    \E key \in PhysicalKeys : KeyDown(key) \/ KeyRepeat(key) \/ KeyUp(key)

SpecHotkey == InitHotkey /\ [][NextHotkey]_vars

\* The listener thread and the thread that starts and stops the manager.
\* manager.py 91-104 start()
ManagerStart ==
    /\ ~running
    /\ running' = TRUE
    /\ UNCHANGED <<engineVars, configVars, toolVars, uiVars, deviceVars, now, threadVars,
                   historyVars, bindings, pressed, platform, held, fired, registry,
                   handling, scan>>

\* manager.py 106-113 stop(): the listener is told to stop, which ends the
\* delivery of new events and does not wait for the handler in progress, and
\* _pressed is cleared (without the lock).
ManagerStop ==
    /\ running
    /\ running' = FALSE
    /\ pressed' = {}
    /\ UNCHANGED <<engineVars, configVars, toolVars, uiVars, deviceVars, now, threadVars,
                   historyVars, bindings, platform, held, fired, registry, handling, scan>>

\* The listener thread receives a press event (key going down, or the repeat
\* of a held key) and enters _on_press (manager.py 146-147).
PressArrives(key) ==
    /\ running
    /\ handling = ""
    /\ held' = held \cup {key}
    /\ handling' = key
    /\ UNCHANGED <<engineVars, configVars, toolVars, uiVars, deviceVars, now, threadVars,
                   historyVars, bindings, pressed, running, platform, fired, registry,
                   scan>>

\* manager.py 148-156: the rest of _on_press for the event received.
PressHandled ==
    /\ handling # ""
    /\ \A n \in DOMAIN fired : fired[n] < MaxFires
    /\ OnPress(handling)
    /\ handling' = ""
    /\ UNCHANGED <<engineVars, configVars, toolVars, uiVars, deviceVars, now, threadVars,
                   historyVars, bindings, running, platform, held, registry, scan>>

\* The listener thread handles one event at a time.
ReleaseArrives(key) == handling = "" /\ KeyUp(key)

\* A key goes down or up while no listener runs: no event.
KeyMovesUnheard(key) ==
    /\ ~running
    /\ held' = IF key \in held THEN held \ {key} ELSE held \cup {key}
    /\ UNCHANGED <<engineVars, configVars, toolVars, uiVars, deviceVars, now, threadVars,
                   historyVars, bindings, pressed, running, platform, fired, registry,
                   handling, scan>>

ListenerKeys == {"ctrl_l", "shift_l", "h", "esc"}

\* app.py 62 and 83-97: the manager constructed and the bindings registered,
\* before hotkeys.start().
InitListener ==
    /\ InitEngine
    /\ InitNoTools
    /\ InitNoWidget
    /\ max_duration \in RaceMaxDurations
    /\ silence_duration \in RaceSilenceDurations
    /\ on_recording_stop = "Application._on_recording_stop"
    /\ platform = "Linux"
    /\ bindings =
         Registered(
           Registered(
             Registered(<<>>, "toggle_recording", <<"<ctrl>", "<shift>", "h">>,
                        "_toggle_recording"),
             "cancel_recording", <<"<escape>">>, "_cancel_recording"),
           "correct_clipboard", <<"<ctrl>", "<shift>", "j">>, "_correct_clipboard")
    /\ registry =
         Noted(
           Noted(
             Noted(<<>>, "toggle_recording", <<"<ctrl>", "<shift>", "h">>,
                   "_toggle_recording"),
             "cancel_recording", <<"<escape>">>, "_cancel_recording"),
           "correct_clipboard", <<"<ctrl>", "<shift>", "j">>, "_correct_clipboard")
    /\ pressed = {}
    /\ running = FALSE
    /\ held = {}
    /\ handling = ""
    /\ scan = NoMatching
    /\ fired = [n \in BindingNames |-> 0]

NextListener ==
    \/ ManagerStart
    \/ ManagerStop
    \/ PressHandled
    \/ \E key \in ListenerKeys :
           PressArrives(key) \/ ReleaseArrives(key) \/ KeyMovesUnheard(key)

SpecListener == InitListener /\ [][NextListener]_vars

\* The manager driven through its public API: register() and unregister()
\* with chord strings as they come from the configuration, key events from the
\* listener in between.
RegistryNames == {"toggle_recording", "cancel_recording"}

\* hotkey_str.split("+") of "<ctrl>+<unknown>+h", "<Ctrl>+H", "h", "",
\* "<cmd>+h" and "<alt>+<shift>+h"
ChordStrings ==
    { <<"<ctrl>", "<unknown>", "h">>, <<"<Ctrl>", "H">>, <<"h">>, <<"">>,
      <<"<cmd>", "h">>, <<"<alt>", "<shift>", "h">> }

RegistryKeys == {"ctrl_l", "ctrl_r", "cmd", "cmd_r", "alt_r", "shift_r", "h"}

ActionOf(name) == IF name = "toggle_recording" THEN "_toggle_recording"
                  ELSE "_cancel_recording"

InitRegistry ==
    /\ InitEngine
    /\ InitNoTools
    /\ InitNoWidget
    /\ max_duration \in RaceMaxDurations
    /\ silence_duration \in RaceSilenceDurations
    /\ on_recording_stop = "Application._on_recording_stop"
    /\ platform \in {"Linux", "Darwin"}
    /\ bindings = <<>>
    /\ registry = <<>>
    /\ pressed = {}
    /\ running = TRUE
    /\ held = {}
    /\ handling = ""
    /\ scan = NoMatching
    /\ fired = [n \in RegistryNames |-> 0]

NextRegistry ==
    \/ \E name \in RegistryNames, parts \in ChordStrings :
           Register(name, parts, ActionOf(name))
    \/ \E name \in RegistryNames : Unregister(name)
    \/ \E key \in RegistryKeys : KeyDown(key) \/ KeyRepeat(key) \/ KeyUp(key)

SpecRegistry == InitRegistry /\ [][NextRegistry]_vars

\* ------------------------------- HotkeyManager._on_press, statement by statement
\* register() and unregister() are called by another thread while the
\* listener thread is inside _on_press. Neither takes self._lock (manager.py
\* 73-89), and _on_press holds it only around self._pressed.add (148-149).

\* The listener thread, alive, receives a press event.
PressReceived(key) == scan.at = "none" /\ PressArrives(key)

\* manager.py 147-152: the key is added under the lock and the for statement
\* creates the iterator of self._bindings.items(), which notes the size of
\* the dict.
ScanBegins ==
    /\ handling # ""
    /\ scan.at = "none"
    /\ pressed' = pressed \cup {Normalize(handling)}
    /\ scan' = [at |-> "loop", used |-> Cardinality(DOMAIN bindings), seen |-> {}]
    /\ UNCHANGED <<engineVars, configVars, toolVars, uiVars, deviceVars, now, threadVars,
                   historyVars, bindings, running, platform, held, fired, registry,
                   handling>>

\* manager.py 152-156: one turn of the loop. The iterator raises RuntimeError
\* ("dictionary changed size during iteration") when the dict no longer has
\* the size noted; otherwise it yields an entry not yet visited, whose action
\* is started on a thread when its keys are all pressed, or ends the loop.
\* An exception leaving _on_press ends the listener thread.
ScanNext ==
    /\ scan.at = "loop"
    /\ \A n \in DOMAIN fired : fired[n] < MaxFires
    /\ IF Cardinality(DOMAIN bindings) # scan.used
       THEN /\ scan' = [scan EXCEPT !.at = "failed"]
            /\ handling' = ""
            /\ UNCHANGED fired
       ELSE IF DOMAIN bindings \ scan.seen = {}
       THEN /\ scan' = NoMatching
            /\ handling' = ""
            /\ UNCHANGED fired
       ELSE \E n \in DOMAIN bindings \ scan.seen :
               /\ scan' = [scan EXCEPT !.seen = @ \cup {n}]
               /\ fired' = [fired EXCEPT ![n] =
                               IF bindings[n].keys \subseteq pressed THEN @ + 1 ELSE @]
               /\ UNCHANGED handling
    /\ UNCHANGED <<engineVars, configVars, toolVars, uiVars, deviceVars, now, threadVars,
                   historyVars, bindings, pressed, running, platform, held, registry>>

ScanChords == { <<"<ctrl>", "h">>, <<"h">> }
ScanKeys == {"ctrl_l", "h"}

NextScan ==
    \/ \E name \in RegistryNames, parts \in ScanChords :
           Register(name, parts, ActionOf(name))
    \/ \E name \in RegistryNames : Unregister(name)
    \/ \E key \in ScanKeys : PressReceived(key) \/ ReleaseArrives(key)
    \/ ScanBegins
    \/ ScanNext

SpecScan == InitRegistry /\ [][NextScan]_vars

\* ------------------------------------------------- Application.stop
\* app.py 120-126: Application.stop() is called (tray quit, Ctrl-C); it reads
\* is_recording and calls cancel() when it is set.
AppStopCall ==
    /\ running
    /\ \A t \in Threads : op[t] # "app_stop"
    /\ FreeThreads # {}
    /\ Spawn(NextThread, "app_stop", IF recording THEN "cn_lock" ELSE "as_hotkeys")
    /\ UNCHANGED <<engineVars, outerVars, deviceVars, now, ret, exc, won, origin,
                   historyVars>>

\* app.py 128-134: hotkeys.stop() (manager.py 106-113), tray.stop(),
\* engine.unload(), and stop() returns.
AppStopHotkeys(t) ==
    /\ pc[t] = "as_hotkeys"
    /\ running' = FALSE
    /\ pressed' = {}
    /\ Goto(t, "done")
    /\ UNCHANGED <<engineVars, configVars, uiVars, toolVars, deviceVars, now, op, ret,
                   exc, won, origin, historyVars, bindings, platform, held, fired,
                   registry, handling, scan>>

\* manager.py 152-156: the running listener starts the toggle action's thread.
ListenerFiresToggle == running /\ FireToggle

\* app.py 72-98: the Application started, its listener running.
InitShutdown ==
    /\ InitEngine
    /\ InitNoTools
    /\ InitNoWidget
    /\ max_duration \in NoAutoStop
    /\ silence_duration \in NoAutoStop
    /\ on_recording_stop = "Application._on_recording_stop"
    /\ platform = "Linux"
    /\ bindings =
         Registered(
           Registered(
             Registered(<<>>, "toggle_recording", <<"<ctrl>", "<shift>", "h">>,
                        "_toggle_recording"),
             "cancel_recording", <<"<escape>">>, "_cancel_recording"),
           "correct_clipboard", <<"<ctrl>", "<shift>", "j">>, "_correct_clipboard")
    /\ registry =
         Noted(
           Noted(
             Noted(<<>>, "toggle_recording", <<"<ctrl>", "<shift>", "h">>,
                   "_toggle_recording"),
             "cancel_recording", <<"<escape>">>, "_cancel_recording"),
           "correct_clipboard", <<"<ctrl>", "<shift>", "j">>, "_correct_clipboard")
    /\ pressed = {}
    /\ running = TRUE
    /\ held = {}
    /\ handling = ""
    /\ scan = NoMatching
    /\ fired = [n \in BindingNames |-> 0]

NextShutdown ==
    \/ ListenerFiresToggle
    \/ AppStopCall
    \/ \E t \in Threads : EngineStep(t) \/ AppStopHotkeys(t)
    \/ \E s \in Streams : CallbackCheck(s, RaceBlocks) \/ CallbackAppend(s)

SpecShutdown == InitShutdown /\ [][NextShutdown]_vars

\* ---------------------------------------------------------- claims
StopCallers == {t \in Threads : op[t] \in {"stop", "autostop_silence", "autostop_duration"}}
Winners == {t \in Threads : won[t] # 0}
PastLock(t) == pc[t] # "sp_lock"
AllLoud == \A i \in 1..Len(frames) : Loud(frames[i].data)
CallbackReturns(s) == cbpc[s] = "append" /\ cbpc'[s] = "idle"
Scheduled(kind) == \E t \in Threads : op[t] = "none" /\ op'[t] = kind

\* C1: among the stop() callers of one session (manual, silence auto-stop,
\* duration auto-stop) exactly one flips the flag and tears the stream down;
\* every other caller finds "not recording" and returns no artifact at once;
\* the session writes at most one artifact, and exactly one when the winner
\* returns with a frame in the buffer.
C1_StopRaceOneWinner ==
    /\ Cardinality(Winners) <= 1
    /\ (\E t \in StopCallers : PastLock(t)) => Cardinality(Winners) = 1
    /\ \A t \in StopCallers \ Winners : PastLock(t) => pc[t] = "done" /\ ret[t] = None
    /\ Len(artifacts) <= 1
    /\ \A t \in Winners : (pc[t] = "done" /\ frames # <<>>) =>
                              (Len(artifacts) = 1 /\ ret[t] = 1)

\* A manual stop and a silence auto-stop of the same session have both
\* returned: one with the artifact, the other with nothing.
C1_Witness ==
    \E t, u \in Threads :
        /\ op[t] = "stop" /\ op[u] = "autostop_silence"
        /\ pc[t] = "done" /\ pc[u] = "done"
        /\ Cardinality({t, u} \cap Winners) = 1
        /\ {ret[t], ret[u]} = {None, 1}
        /\ Len(artifacts) = 1

C8_TriggerAtCallback ==
    \A s \in Streams : CallbackReturns(s) =>
        (Scheduled("autostop_silence") <=>
            (silence_duration > 0 /\ (now - lastLoud') > silence_duration))

C8_LoudNeverFires == AllLoud => \A t \in Threads : op[t] # "autostop_silence"

\* C8: with silence_duration > 0 a callback schedules the silence stop exactly
\* when the time since the last block with RMS strictly above the threshold
\* (since start() if there was none) exceeds silence_duration; as long as
\* every delivered block is loud no silence stop is scheduled.
C8_SilenceAutoStop == []C8_LoudNeverFires /\ [][C8_TriggerAtCallback]_vars

\* A loud block, then quiet for longer than silence_duration: the silence
\* stop was scheduled, won the session and wrote the artifact.
C8_Witness ==
    \E t \in Threads :
        /\ op[t] = "autostop_silence" /\ pc[t] = "done" /\ won[t] = 1
        /\ ret[t] # None
        /\ lastLoud > start_time
        /\ now - lastLoud > silence_duration

\* C9: a callback schedules the duration stop only once the time since start()
\* exceeds max_duration (> 0), and every callback of a recording that delivers
\* a loud block after that does schedule it, whatever silence_duration is.
C9_DurationAutoStop ==
    [][\A s \in Streams : CallbackReturns(s) =>
          /\ Scheduled("autostop_duration") =>
                 (max_duration > 0 /\ (now - start_time) > max_duration)
          /\ (recording /\ Loud(cbBlock[s]) /\ max_duration > 0
                  /\ (now - start_time) > max_duration) =>
                 Scheduled("autostop_duration")]_vars

\* Loud blocks only, silence detection on: the duration stop ended the session.
C9_Witness ==
    \E t \in Threads :
        /\ op[t] = "autostop_duration" /\ pc[t] = "done" /\ won[t] = 1
        /\ ret[t] # None
        /\ AllLoud /\ silence_duration > 0
        /\ start_time > 0

Quiescent == \A t \in Threads : Quiet(t)
OthersQuiet(t) == \A u \in Threads \ {t} : Quiet(u)
OpenStreams == {s \in Streams : streamState[s] = "active"}

\* C2: at most one input stream opened by the engine is open (started and not
\* yet stopped) at any time, under any interleaving of toggle actions, cancel
\* actions and auto-stops.
C2_AtMostOneOpenStream == Cardinality(OpenStreams) <= 1

\* C3: when cancel() returns, the flag is false, the frame buffer is empty and
\* no stream is attached. Stated for a cancel() that runs while no other
\* start/stop/cancel call is in progress and after none has raised, so that
\* only realtime callbacks run beside it.
C3_CancelLeavesIdle ==
    [][\A t \in Threads :
          (pc[t] \in {"cn_test", "cn_null"} /\ pc'[t] \in {"done", "cc_notify"}
               /\ \A u \in Threads \ {t} : pc[u] \in {"idle", "done"}) =>
              (~recording' /\ frames' = <<>> /\ stream' = None)]_vars

\* C4: when opening or starting the stream fails inside start() (and no other
\* call is in progress), start() leaves the engine Idle: flag false, no stream
\* handle held.
C4_FailedStartLeavesIdle ==
    [][\A t \in Threads :
          (pc[t] \in {"st_open", "st_start"} /\ pc'[t] = "raised"
               /\ exc'[t] = "DeviceError" /\ OthersQuiet(t)) =>
              (~recording' /\ stream' = None)]_vars

\* C5: once every thread of the Application has finished, each artifact written
\* has been handed to a transcriber, whether the toggle action or an auto-stop
\* ended its session.
C5_EveryArtifactHanded ==
    Quiescent => \A a \in 1..Len(artifacts) : handed[a] >= 1

\* C10: whenever no start(), stop() or cancel() call is in progress, the stream
\* handle is non-null iff the flag is true. Stated for the runs in which no call
\* has raised, so that a violation is the interleaving itself and not the
\* failed start() of C4.
C10_FlagMatchesStream ==
    (Quiescent /\ \A t \in Threads : pc[t] # "raised") =>
        ((stream # None) <=> recording)

\* C6: in WidgetApp each artifact is handed to the transcription collaborator
\* exactly once: never more than one transcriber thread per artifact, and one
\* for each artifact once the main loop has nothing left to run.
C6_OneTranscriptionPerArtifact ==
    /\ \A a \in 1..Len(artifacts) : handed[a] <= 1
    /\ (Quiescent /\ afterQueue = <<>>) => \A a \in 1..Len(artifacts) : handed[a] = 1

\* the chord of binding n is fully held on the keyboard
ChordHeld(n) == bindings[n].keys \subseteq {Normalize(k) : k \in held}

\* C7: a binding fires once on the press that completes its chord (the key set
\* was not fully held before the event and is after it) and on no other event:
\* not on the repeat of a held key nor on a press of a key outside the chord
\* while the chord stays held.
C7_FiresOnlyOnCompletion ==
    [][\A n \in DOMAIN bindings :
          fired'[n] = fired[n] + (IF ~ChordHeld(n) /\ ChordHeld(n)' THEN 1 ELSE 0)]_vars

\* the thread's stop() returns at this step
StopReturns(t) == pc[t] \in {"sp_lock", "sp_frames", "sp_cb"} /\ pc'[t] = "done"

\* C11: stop() on an Idle engine (flag false) returns no artifact at once,
\* leaves flag, stream handle and frame buffer as they were, writes no file
\* and does not reach the on_recording_stop call; so a repeated stop() has no
\* effect beyond the first.
C11_IdleStopIsNoOp ==
    [][\A t \in Threads :
          (pc[t] = "sp_lock" /\ ~recording /\ pc'[t] # pc[t]) =>
              /\ pc'[t] = "done" /\ ret'[t] = None /\ won'[t] = 0
              /\ UNCHANGED <<recording, stream, frames, artifacts, afterQueue, handed>>]_vars

\* After a session was stopped and saved, a second stop() has returned nothing
\* and the engine is still Idle with the one artifact.
C11_Witness ==
    \E t, u \in Threads :
        /\ t # u /\ op[t] = "stop" /\ op[u] = "stop"
        /\ pc[t] = "done" /\ pc[u] = "done"
        /\ won[t] = 1 /\ ret[t] = 1
        /\ won[u] = 0 /\ ret[u] = None
        /\ ~recording /\ stream = None /\ Len(artifacts) = 1

TogglePath(t) == op[t] \in {"toggle_start", "toggle_stop"}

\* C12: successive toggle() calls alternate: the first starts, each later one
\* does the opposite of the one before. A toggle() that started returns
\* nothing and leaves the engine recording with a stream; a toggle() that
\* stopped leaves the engine Idle and returns the path of the artifact holding
\* the frame buffer when the buffer is not empty, and nothing when it is.
C12_ToggleAlternates ==
    /\ [](\A t \in Threads : TogglePath(t) =>
              IF t = 1 THEN op[t] = "toggle_start"
              ELSE TogglePath(t - 1) /\ op[t - 1] # op[t])
    /\ [][\A t \in Threads :
            /\ (op[t] = "toggle_start" /\ pc[t] = "st_cb" /\ pc'[t] = "done") =>
                   (recording' /\ stream' # None /\ ret'[t] = None)
            /\ (op[t] = "toggle_stop" /\ StopReturns(t)) =>
                   /\ ~recording' /\ stream' = None
                   /\ IF frames = <<>> THEN ret'[t] = None
                      ELSE /\ ret'[t] \in 1..Len(artifacts')
                           /\ artifacts'[ret'[t]].frames = frames]_vars

\* Three toggles: started, stopped with an artifact, started again.
C12_Witness ==
    /\ op[1] = "toggle_start" /\ op[2] = "toggle_stop" /\ op[3] = "toggle_start"
    /\ pc[3] = "done" /\ recording
    /\ ret[2] = 1 /\ Len(artifacts) = 1

\* C13: cancel() writes no artifact and raises nothing, from any state, also
\* while a stop() or another cancel() tears the same stream down.
C13_CancelNeverFails ==
    [][\A t \in Threads : op[t] = "cancel" =>
          /\ pc'[t] # "raised"
          /\ pc'[t] # pc[t] => artifacts' = artifacts]_vars

\* the thread's stop() calls on_recording_stop at this step
Emits(t) == pc[t] = "sp_cb" /\ pc'[t] # "sp_cb" /\ on_recording_stop # "None"

\* C14: every stop() that flipped the flag calls the observer once before it
\* returns, with the artifact when frames were captured and with None when the
\* buffer was empty: a winner's return is the step after its one
\* on_recording_stop call.
C14_WinnerEmitsStopped ==
    [][\A t \in Threads : (won[t] # 0 /\ StopReturns(t)) => Emits(t)]_vars

\* the transcriber thread i ends at this step
TaskEnds(i) == tasks[i].state = "running" /\ tasks'[i].state # "running"

\* C15: a transcriber thread ends either with the text or with the failure
\* caught and reported, never with an exception leaving the thread; its steps
\* change nothing of the capture engine or its streams; and a toggle fired on
\* an Idle engine after a reported failure still runs start().
C15_WorkerFailureContained ==
    [][/\ \A i \in DOMAIN tasks : TaskEnds(i) =>
              /\ tasks'[i].state \in {"ok", "reported"}
              /\ UNCHANGED <<engineVars, deviceVars, threadVars>>
       /\ ((\E i \in DOMAIN tasks : tasks[i].state = "reported")
               /\ ~recording /\ Scheduled("toggle")) =>
              \E t \in Threads : op[t] = "none" /\ pc'[t] = "st_lock"]_vars

\* The transcription of the first recording failed and was reported, and the
\* toggle after it has started a second recording.
C15_Witness ==
    /\ Len(tasks) = 1 /\ tasks[1].state = "reported"
    /\ op[3] = "toggle" /\ pc[3] = "done" /\ exc[3] = ""
    /\ recording /\ session = 2
    /\ stream # None /\ streamState[stream] = "active"

\* the left-hand key of a modifier's right-hand key
LeftHand(key) ==
    CASE key = "ctrl_r" -> "ctrl_l"
      [] key = "shift_r" -> "shift_l"
      [] key = "alt_r" -> "alt_l"
      [] key = "cmd_r" -> "cmd"
      [] OTHER -> key

\* the listener's pressed set agrees with the keyboard
InSync == pressed = {Normalize(k) : k \in held}

\* a press event is delivered at this step
PressEvent ==
    /\ bindings' = bindings /\ registry' = registry
    /\ held \subseteq held' /\ pressed \subseteq pressed'

\* C16: a right-hand modifier key satisfies a binding as its left-hand key
\* does: on a press event a binding fires exactly when its key set is held
\* once every held right-hand modifier is read as its left-hand one.
C16_RightHandAsLeftHand ==
    [][(InSync /\ PressEvent) =>
          \A n \in DOMAIN bindings :
              (fired'[n] = fired[n] + 1) <=>
                  (bindings[n].keys \subseteq {Normalize(LeftHand(k)) : k \in held'})]_vars

Recognised(part) == Lower(part) \in ModifierTokens \cup SpecialTokens \cup Characters

KeyOfPart(part) ==
    IF Lower(part) \in ModifierTokens THEN ModifierMap(Lower(part))
    ELSE IF Lower(part) \in SpecialTokens THEN SpecialMap(Lower(part))
    ELSE Lower(part)

RecognisedKeys(parts) ==
    {KeyOfPart(parts[i]) : i \in {j \in 1..Len(parts) : Recognised(parts[j])}}

\* C17: register() never fails, and the key set it stores is exactly the keys
\* of the recognised parts of the chord string, wherever the unknown parts
\* stand: "<ctrl>+<unknown>+h" is stored as {ctrl, h}.
C17_UnknownTokensDropped ==
    /\ DOMAIN registry \subseteq DOMAIN bindings
    /\ \A n \in DOMAIN registry : bindings[n].keys = RecognisedKeys(registry[n].str)

\* "<ctrl>+<unknown>+h" is registered and has fired on ctrl and h held.
C17_Witness ==
    \E n \in DOMAIN registry :
        /\ registry[n].str = <<"<ctrl>", "<unknown>", "h">>
        /\ bindings[n].keys = {"ctrl_l", "h"}
        /\ held = {"ctrl_l", "h"}
        /\ fired[n] = 1

\* C18: every binding in the table has a non-empty key set.
C18_KeySetsNonEmpty == \A n \in DOMAIN bindings : bindings[n].keys # {}

\* C19: on a press event every binding whose key set is within the pressed
\* set fires, whatever other bindings fire with it.
C19_AllMatchesFire ==
    [][PressEvent =>
          \A n \in DOMAIN bindings :
              bindings[n].keys \subseteq pressed' => fired'[n] = fired[n] + 1]_vars

\* Two bindings, the key set of one within the (larger) key set of the other,
\* both held, each fired once.
C19_Witness ==
    \E a, b \in DOMAIN bindings :
        /\ a # b
        /\ bindings[a].keys # {} /\ bindings[a].keys \subseteq bindings[b].keys
        /\ Cardinality(bindings[b].keys) >= 2
        /\ bindings[b].keys \subseteq pressed
        /\ fired[a] = 1 /\ fired[b] = 1

\* C20: the table holds, for each name, the key set and action of the last
\* register(name, ...) not followed by unregister(name), and nothing for any
\* other name; unregister() of an absent name changes nothing.
C20_TableIsLastRegistration ==
    /\ DOMAIN bindings = DOMAIN registry
    /\ \A n \in DOMAIN registry :
          bindings[n] = [keys |-> ParseHotkey(registry[n].str),
                         action |-> registry[n].action]

\* One binding was registered, fired and was unregistered; the other is still
\* in the table.
C20_Witness ==
    /\ DOMAIN bindings = {"toggle_recording"}
    /\ fired["cancel_recording"] >= 1
    /\ bindings["toggle_recording"].keys = {"h"}

\* C21: between the return of stop() and the next start() the pressed-key set
\* is empty, also while a press event of the stopped listener is still being
\* handled.
C21_StoppedMeansCleared == ~running => pressed = {}

\* the thread changes position at this step
Moves(t) == pc'[t] # pc[t]

\* C22: the cancel action fired while a recording is in progress ends with the
\* engine Idle (flag false, no stream attached), after the notification that
\* the recording was discarded, and none of its steps writes an artifact or
\* starts a transcriber; fired while nothing records it ends at once, without
\* the notification, and changes nothing of the engine.
C22_CancelActionFrame ==
    [][\A t \in Threads :
          /\ (op[t] = "none" /\ op'[t] = "cancel") =>
                 IF recording THEN pc'[t] = "cn_lock"
                 ELSE /\ pc'[t] = "done"
                      /\ UNCHANGED <<engineVars, deviceVars, historyVars, uiVars>>
          /\ (op[t] = "cancel" /\ Moves(t)) =>
                 /\ UNCHANGED <<artifacts, handed, tasks>>
                 /\ pc'[t] # "raised"
                 /\ pc'[t] = "done" =>
                        (pc[t] = "cc_notify" /\ ~recording' /\ stream' = None)]_vars

\* A recording was cancelled: its stream is closed, no stop() ever won, no
\* artifact exists, and the cancel action has ended.
C22_Witness ==
    \E t \in Threads :
        /\ op[t] = "cancel" /\ pc[t] = "done"
        /\ \E s \in Streams : streamState[s] = "closed"
        /\ \A u \in Threads : won[u] = 0
        /\ ~recording /\ stream = None /\ artifacts = <<>> /\ tasks = <<>>

OpenedStreams == {s \in Streams : streamState[s] # "none"}

C23_OneStreamPerSession == Cardinality(OpenedStreams) <= session

C23_RecordingStartReturns ==
    \A t \in Threads :
        (pc[t] = "st_lock" /\ recording /\ Moves(t)) =>
            /\ pc'[t] = "done"
            /\ UNCHANGED <<recording, frames, start_time, last_sound_time, stream,
                           streamState, session>>

\* C23: start() on a Recording engine returns from its locked section without
\* reaching the stream or the on_recording_start call and leaves flag, frame
\* buffer, both timestamps and stream handle as they were; and no more streams
\* are opened than start() calls have set the flag, so of two concurrent
\* start() calls on an Idle engine one opens a stream.
C23_StartOnRecordingIsNoOp ==
    []C23_OneStreamPerSession /\ [][C23_RecordingStartReturns]_vars

\* Two toggle threads both ran start() on the Idle engine: one session, one
\* stream, both returned.
C23_Witness ==
    /\ op[1] = "toggle" /\ op[2] = "toggle" /\ op[3] = "none"
    /\ pc[1] = "done" /\ pc[2] = "done"
    /\ \A u \in Threads : won[u] = 0
    /\ session = 1 /\ recording
    /\ Cardinality(OpenedStreams) = 1
    /\ stream # None /\ streamState[stream] = "active"

C24_ArtifactsNonEmpty == \A a \in 1..Len(artifacts) : artifacts[a].frames # <<>>

C24_EmptyStopReturnsNothing ==
    \A t \in Threads :
        (won[t] # 0 /\ pc[t] = "sp_frames" /\ frames = <<>> /\ Moves(t)) =>
            /\ pc'[t] = "done" /\ ret'[t] = None /\ exc'[t] = ""
            /\ artifacts' = artifacts

\* C24: every artifact written holds at least one frame; a winning stop() that
\* finds the buffer empty when it tests it (capture.py 106) returns None,
\* writes no file and raises nothing.
C24_PersistOnlyNonEmpty ==
    []C24_ArtifactsNonEmpty /\ [][C24_EmptyStopReturnsNothing]_vars

\* A stop() won a session in which no block arrived: stream closed, nothing
\* returned, nothing written.
C24_Witness ==
    \E t \in Threads :
        /\ won[t] = 1 /\ pc[t] = "done" /\ ret[t] = None /\ exc[t] = ""
        /\ frames = <<>> /\ artifacts = <<>>
        /\ streamState[1] = "closed" /\ stream = None

\* C25: list_devices() never raises: it returns a list, empty when the device
\* query fails or finds no input, and with entries of at least one input
\* channel only.
C25_ListDevicesNeverRaises ==
    /\ listed.raised = ""
    /\ \A i \in 1..Len(listed.value) : listed.value[i].channels > 0

\* C26: with silence_duration = 0 no silence auto-stop is ever scheduled and
\* with max_duration = 0 no duration auto-stop, however long the recording
\* lasts; so with both 0 only a stop() call of an API user ends a recording.
C26_ZeroDisablesAutoStop ==
    /\ silence_duration = 0 => \A t \in Threads : op[t] # "autostop_silence"
    /\ max_duration = 0 => \A t \in Threads : op[t] # "autostop_duration"
    /\ (silence_duration = 0 /\ max_duration = 0) =>
           \A t \in Winners : op[t] = "stop"

\* Both settings 0: the recording has run to the end of the clock over quiet
\* blocks and is still on.
C26_Witness ==
    /\ silence_duration = 0 /\ max_duration = 0
    /\ recording /\ now = MaxTime /\ now - start_time >= 3
    /\ Len(frames) = MaxFrames
    /\ \A i \in 1..Len(frames) : ~Loud(frames[i].data)
    /\ \A s \in Streams : cbpc[s] = "idle"

\* C27: at any time a FinetuneDataset newly constructed on the directory would
\* hold exactly the samples of the live object: same ids, texts, audio paths,
\* durations and recorded flags, in the same order.
C27_ReloadEqualsLive == Loaded = ds_samples

\* the thread's stop() flipped the flag of this session and has not yet
\* concatenated the buffer
HoldsBuffer(t) ==
    /\ won[t] = session
    /\ pc[t] \in {"sp_test", "sp_halt", "sp_close", "sp_null", "sp_frames", "sp_save"}

\* the thread's cancel() acquires the lock at this step
CancelAcquires(c) == pc[c] = "cn_lock" /\ pc'[c] # "cn_lock"

\* C28: when stop() and cancel() race on a session holding at least one frame,
\* the lock order decides: a stop() that acquired the lock before cancel()
\* still finds the frames it flipped the flag for (and so returns the
\* artifact, without raising), whenever cancel() acquires the lock after it.
C28_LockOrderDecides ==
    [][\A t, c \in Threads :
          (HoldsBuffer(t) /\ frames # <<>> /\ CancelAcquires(c)) => frames' = frames]_vars

\* the winning stop() is about to read and concatenate the buffer
Concatenates(t) == won[t] # 0 /\ pc[t] = "sp_save"

\* C29: when the winning stop() reads and concatenates the frame buffer, every
\* stream the engine opened has been stopped and no callback is about to
\* append: no writer runs concurrently with the reader.
C29_NoWriterAtConcatenate ==
    \A t \in Threads :
        Concatenates(t) => (OpenStreams = {} /\ \A s \in Streams : cbpc[s] = "idle")

\* a callback appends its block at this step
Appends == Len(frames') > Len(frames)

\* C30: the callback's flag test and its append are one critical section under
\* the engine lock: no block is appended to the frame buffer while the
\* recording flag is false, i.e. after stop() or cancel() flipped it.
C30_NoAppendAfterFlip == [][Appends => recording]_vars

\* a realtime callback returns at this step
CallbackStep == \E s \in Streams : cbpc[s] = "append" /\ cbpc'[s] = "idle"

\* the listener (or the tray) starts an action's thread at this step
DispatchStep == \E t \in Threads : op[t] = "none" /\ op'[t] \in {"toggle", "cancel"}

\* nothing of stop()'s teardown and file write, and no transcription, happens
\* at this step
NoBlockingWork ==
    /\ recording' = recording
    /\ stream' = stream
    /\ streamState' = streamState
    /\ artifacts' = artifacts
    /\ tasks' = tasks

\* C32: stop() (teardown and file write) and the transcription never run on
\* the audio callback thread or on the listener thread: a callback whose guard
\* triggers and a chord that fires only start a thread and return.
C32_BlockingWorkOnWorkers ==
    [][/\ CallbackStep =>
            /\ NoBlockingWork
            /\ \A t \in Threads : pc'[t] # pc[t] => (op[t] = "none" /\ pc'[t] = "sp_lock")
       /\ DispatchStep => (NoBlockingWork /\ cbpc' = cbpc)
       /\ ~NoBlockingWork => (cbpc' = cbpc /\ op' = op)]_vars

C32_Witness ==
    /\ \E t \in Threads : op[t] = "autostop_duration" /\ pc[t] = "sp_lock"
    /\ \E t \in Threads : op[t] = "toggle" /\ pc[t] = "done"
    /\ \A s \in Streams : cbpc[s] = "idle"

\* the toggle action's stop() has returned an artifact and the action goes on
\* (app.py 178-185)
ArtifactReturned(t) == op[t] = "toggle" /\ pc[t] = "sp_cb" /\ pc'[t] # "sp_cb"

RunningTasks == {i \in DOMAIN tasks : tasks[i].state = "running"}

\* C33: the controller does not serialize transcription across sessions: the
\* toggle action that got an artifact from stop() starts that artifact's
\* transcriber thread at once, whatever transcriptions are still running, so
\* two of them can be in progress at the same time.
C33_TranscriptionsOverlap ==
    [][\A t \in Threads :
          ArtifactReturned(t) =>
              /\ Len(tasks') = Len(tasks) + 1
              /\ tasks'[Len(tasks')] = NewTask(ret[t], "Application._process_recording")
              /\ \A i \in DOMAIN tasks : tasks'[i] = tasks[i]]_vars

C33_Witness ==
    \E i, j \in RunningTasks :
        artifacts[tasks[i].artifact].session < artifacts[tasks[j].artifact].session

Toggles == {t \in Threads : op[t] = "toggle"}

\* only toggle actions were fired, and all of them have returned normally
TogglesReturned ==
    /\ \A t \in Threads : op[t] \in {"none", "toggle"}
    /\ \A t \in Threads : pc[t] \in {"idle", "done"}

\* C36: concurrent toggle actions are linearizable: once n toggle actions
\* fired on threads of their own have all returned, the engine records iff n
\* is odd, and the sessions started and stopped are those of n toggles run one
\* after another (two toggles from Idle: one complete session, Idle again).
C36_TogglesLinearizable ==
    TogglesReturned =>
        /\ recording = (Cardinality(Toggles) % 2 = 1)
        /\ session = (Cardinality(Toggles) + 1) \div 2
        /\ Cardinality(Winners) = Cardinality(Toggles) \div 2

\* C37: whenever no action is in progress (no click handler, no start() or
\* stop() call and no auto-stop thread is running, no callback waits on the
\* main loop), WidgetApp._recording equals the engine's recording flag, so
\* that every click toggles the recording.
C37_WidgetFlagMatchesEngine ==
    (AllReturned /\ afterQueue = <<>>) => widgetRecording = recording

AutoStops == {t \in Threads : op[t] \in {"autostop_silence", "autostop_duration"}}

\* C34: a stop() scheduled by a callback of session N only ever ends session
\* N: when it flips the flag, the flag is that of the session it was scheduled
\* in; a later session is left recording.
C34_AutoStopEndsOwnSession ==
    \A t \in AutoStops : won[t] # 0 => won[t] = origin[t]

\* the session of the stream that delivered the block
SessionOf(block) == origin[block.src]

\* C35: the artifact a winning stop() writes holds blocks of its own session
\* only, also when a start() for the next session runs between the flag flip
\* and the buffer read of that stop().
C35_ArtifactOfOwnSession ==
    \A i \in DOMAIN artifacts :
        \A k \in DOMAIN artifacts[i].frames :
            SessionOf(artifacts[i].frames[k]) = artifacts[i].session

\* every thread started so far has returned (none is running, none raised)
AllReturnedNormally == \A t \in Threads : pc[t] \in {"idle", "done"}

\* C38: once all start/stop/cancel calls and auto-stop threads have returned,
\* the recording indicator of the tray equals the engine's recording flag; in
\* particular it does not show 'recording' while the engine is Idle.
C38_IndicatorMatchesEngine == AllReturnedNormally => trayRecording = recording

\* C39: with max_duration > 0 and blocks arriving, a recording whose stream
\* runs returns to Idle (flag false, no stream open) without any stop() call
\* by the user, the threads started by the callbacks being scheduled fairly.
C39_RecordingEndsUnattended ==
    (recording /\ OpenStreams # {}) ~> (~recording /\ OpenStreams = {})

C39_Witness ==
    /\ \E t \in Threads : op[t] = "autostop_duration" /\ won[t] # 0 /\ pc[t] = "done"
    /\ \A t \in Threads : op[t] \in {"none", "start", "autostop_duration"}
    /\ ~recording /\ OpenStreams = {}

\* Application.stop() has returned
AppStopped == \E t \in Threads : op[t] = "app_stop" /\ pc[t] = "done"

\* C40: after Application.stop() has returned no recording is in progress and
\* none starts later: the engine is Idle with no open stream and the listener
\* is not running, also when a toggle action dispatched before the shutdown
\* is still in flight.
C40_NothingRecordsAfterShutdown ==
    AppStopped => (~recording /\ OpenStreams = {} /\ ~running)

\* C31: register() and unregister() from another thread are synchronized
\* against the matching of a press: the table does not change under the loop
\* of _on_press, and the matching never fails.
C31_MatchingNeverFails ==
    /\ scan.at # "failed"
    /\ scan.at = "loop" => Cardinality(DOMAIN bindings) = scan.used

====
